---- MODULE Spec2Model ----
(***************************************************************************)
(* The zlock server of src/__main__.py: the lock table (held_locks), the   *)
(* request loop of ZMQLockServer.run behind its ROUTER/DEALER/REP proxy,   *)
(* the timeout monitor thread and the restart loop of the main block.      *)
(* Clients are REQ sockets: each has at most one request outstanding.      *)
(***************************************************************************)
EXTENDS Integers, Sequences, FiniteSets, TLC

\* ------------------------------------------------------------------ bounds
MaxDepth == 2        \* clients stop nesting acquisitions at this depth
MaxTimeout == 2      \* the largest lease a client asks for
MaxOwed == 2         \* grants of one key a client lets stand unreleased

Keys == {"k1", "k2"}
Clients == {"A", "B"}

\* ------------------------------------------------------- frames and parsing
Digits == <<"0", "1", "2", "3", "4", "5", "6", "7", "8", "9">>

IsDigit(ch) == \E i \in 1..10 : Digits[i] = ch

DigitVal(ch) == (CHOOSE i \in 1..10 : Digits[i] = ch) - 1

RECURSIVE ParseNat(_)
ParseNat(s) ==
    IF Len(s) = 0 THEN 0
    ELSE ParseNat(SubSeq(s, 1, Len(s) - 1)) * 10 + DigitVal(s[Len(s)])

AllDigits(s) == Len(s) > 0 /\ \A i \in 1..Len(s) : IsDigit(s[i])

\* int(timeout) of a frame, a sequence of characters: an optional sign and
\* decimal digits; anything else raises ValueError.
IntParses(s) ==
    \/ AllDigits(s)
    \/ Len(s) > 1 /\ s[1] \in {"-", "+"} /\ AllDigits(Tail(s))

IntOf(s) ==
    IF s[1] = "-" THEN 0 - ParseNat(Tail(s))
    ELSE IF s[1] = "+" THEN ParseNat(Tail(s))
    ELSE ParseNat(s)

\* str(n), what a client puts in the timeout frame
RECURSIVE ToStr(_)
ToStr(n) ==
    IF n < 0 THEN <<"-">> \o ToStr(0 - n)
    ELSE IF n < 10 THEN <<Digits[n + 1]>>
    ELSE ToStr(n \div 10) \o <<Digits[(n % 10) + 1]>>

\* The timeout frames clients send: no lease, the longest lease, and one
\* that is no number.
TimeoutFrames == {ToStr(0), ToStr(MaxTimeout), <<"x">>}

\* The requests a client c sends; its uuid frame is its own identity. One
\* acquire lacks its timeout frame and "status" is no verb of the server.
Requests(c) ==
    {<<"hello">>, <<"status">>, <<"acquire", c>>}
    \cup {<<"acquire", k, c, t>> : k \in Keys, t \in TimeoutFrames}
    \cup {<<"release", k, c>> : k \in Keys}

\* The requests of two clients contending for locks with the longest lease.
ContendingRequests(c) ==
    {<<"hello">>, <<"status">>}
    \cup {<<"acquire", k, c, ToStr(MaxTimeout)>> : k \in Keys}
    \cup {<<"release", k, c>> : k \in Keys}

NoFrames == <<>>
NoMessage == [addr |-> "none", frames |-> NoFrames]
NoReturn == [success |-> FALSE, depth |-> 0, holder |-> "unset"]

\* --------------------------------------------------------------- responses
HelloReply == <<"hello">>
AcquiredReply(depth) == <<"ok", "lock acquired, re-entry depth", depth>>
RetryReply(uuid) == <<"retry", "lock held by uuid", uuid>>
ReleasedReply(depth) == <<"ok", "lock released, re-entry depth", depth>>
NotHeldReply == <<"error", "lock holding timed out or was never acquired">>
TracebackReply(exc) == <<"error", exc>>

\* ------------------------------------------------------------------- state
VARIABLES
    held_locks,   \* self.held_locks: key -> [uuid, timeout, depth]
    pc,           \* where the request loop of run() stands
    router,       \* requests queued at the ROUTER socket, oldest first
    messages,     \* the request pulled from the REP socket, with its envelope
    ret,          \* success, data as returned by acquire / release
    reply,        \* what was sent on the REP socket and not yet forwarded
    inbox,        \* per client: the response its REQ socket received
    track,        \* observer: per key, the lease granted and the ticks since
    access_lock,  \* self.access_lock: the threads that have taken it
    owed,         \* observer: per key and client, grants not yet released
    live,         \* observer: per key, the same count since the reply depth 1
    child,        \* per child process: where HeartbeatClient.mainloop stands
    hb_queue,     \* heartbeats waiting at the HeartbeatServer's REP socket
    hb_msg,       \* the heartbeat the HeartbeatServer received and not yet echoed
    hb_echo,      \* per child: the echo waiting at its REQ socket
    parent        \* the process of the HeartbeatServer: "running" or "gone"

observers == <<owed, live>>

hb_vars == <<child, hb_queue, hb_msg, hb_echo, parent>>

vars == <<held_locks, pc, router, messages, ret, reply, inbox, track,
          access_lock, owed, live, child, hb_queue, hb_msg, hb_echo, parent>>

Children == {"c1", "c2", "c3"}

\* No echo at a socket: nothing to read.
NoEcho == <<>>

NoBeat == [from |-> "none", token |-> NoEcho]

EmptyTable == [k \in {} |-> 0]

Held(k) == k \in DOMAIN held_locks

Outstanding(c) ==
    \/ messages.addr = c
    \/ \E i \in 1..Len(router) : router[i].addr = c

\* The observer of a key: whether a grant of the key is being followed, the
\* lease_remaining its record had after the last grant, and the monitor ticks
\* since. It is written by the steps below and read by no step.
Untracked == [on |-> FALSE, n |-> 0, ticks |-> 0]

Init ==
    /\ held_locks = EmptyTable
    /\ pc = "recv"
    /\ router = <<>>
    /\ messages = NoMessage
    /\ ret = NoReturn
    /\ reply = NoFrames
    /\ inbox = [c \in Clients |-> NoFrames]
    /\ track = [k \in Keys |-> Untracked]
    /\ access_lock = {}
    /\ owed = [k \in Keys |-> [c \in Clients |-> 0]]
    /\ live = [k \in Keys |-> 0]
    /\ child = [c \in Children |-> "started"]
    /\ hb_queue = <<>>
    /\ hb_msg = NoBeat
    /\ hb_echo = [c \in Children |-> NoEcho]
    /\ parent = "running"

\* ------------------------------------------------------------- lock table
Put(held, k, lock) == [x \in DOMAIN held \cup {k} |-> IF x = k THEN lock ELSE held[x]]

Remove(held, k) == [x \in DOMAIN held \ {k} |-> held[x]]

Max(a, b) == IF a >= b THEN a ELSE b

Granted(depth) == [success |-> TRUE, depth |-> depth, holder |-> "unset"]

\* Reacquired going two levels deeper.
ReacquiredTwice(lock, t) ==
    [uuid |-> lock.uuid, timeout |-> Max(lock.timeout, t), depth |-> lock.depth + 2]

\* Reacquired without the depth increment.
ReacquiredFlat(lock, t) ==
    [uuid |-> lock.uuid, timeout |-> Max(lock.timeout, t), depth |-> lock.depth]

\* Reacquired taking the requested timeout as the new lease.
ReacquiredOverwrite(lock, t) ==
    [uuid |-> lock.uuid, timeout |-> t, depth |-> lock.depth + 1]

\* acquire by the owner of the record: one level deeper, the lease never shortened
Reacquired(lock, t) ==
    [uuid |-> lock.uuid, timeout |-> Max(lock.timeout, t), depth |-> lock.depth + 1]

\* Refused without the owner test: the call nests on the holder's record.
RefusedAsReentry(held, filepath, t) ==
    [held |-> Put(held, filepath, Reacquired(held[filepath], t)), exc |-> "none",
     ret |-> Granted(held[filepath].depth + 1)]

\* Refused after the lease was already refreshed for the caller.
RefusedRefreshing(held, filepath, t) ==
    [held |-> Put(held, filepath, [held[filepath] EXCEPT !.timeout = Max(@, t)]),
     exc |-> "none",
     ret |-> [success |-> FALSE, depth |-> 0, holder |-> held[filepath].uuid]]

\* acquire by anyone else: the table as it was, and the holder's uuid
Refused(held, filepath, t) ==
    [held |-> held, exc |-> "none",
     ret |-> [success |-> FALSE, depth |-> 0, holder |-> held[filepath].uuid]]

\* ZMQLockServer.acquire: the table after the call, the exception it raised
\* ("none" if it returned) and the pair it returned.
acquire(held, filepath, uuid, timeout) ==
    IF ~IntParses(timeout)
    THEN [held |-> held, exc |-> "ValueError", ret |-> NoReturn]
    ELSE LET t == IntOf(timeout) IN
         IF filepath \in DOMAIN held
         THEN IF held[filepath].uuid = uuid
              THEN LET lock == Reacquired(held[filepath], t) IN
                   [held |-> Put(held, filepath, lock), exc |-> "none",
                    ret |-> Granted(lock.depth)]
              ELSE Refused(held, filepath, t)
         ELSE LET lock == [uuid |-> uuid, timeout |-> t, depth |-> 1] IN
              [held |-> Put(held, filepath, lock), exc |-> "none",
               ret |-> Granted(lock.depth)]

NotReleased(held) ==
    [held |-> held, ret |-> [success |-> FALSE, depth |-> 0, holder |-> "None"]]

\* Owns without the comparison of uuids.
OwnsAny(lock, uuid) == TRUE

\* release looks at the record only if it is the caller's
Owns(lock, uuid) == lock.uuid = uuid

\* Lowered dropping every level at once.
LoweredAll(held, filepath) ==
    [held |-> Remove(held, filepath), ret |-> Granted(0)]

\* Lowered without the deletion at depth 0.
LoweredKeeps(held, filepath) ==
    LET lock == [held[filepath] EXCEPT !.depth = @ - 1] IN
    [held |-> Put(held, filepath, lock), ret |-> Granted(lock.depth)]

\* one level less; the record goes when the depth reaches 0
Lowered(held, filepath) ==
    LET lock == [held[filepath] EXCEPT !.depth = @ - 1] IN
    IF lock.depth = 0
    THEN [held |-> Remove(held, filepath), ret |-> Granted(lock.depth)]
    ELSE [held |-> Put(held, filepath, lock), ret |-> Granted(lock.depth)]

\* ZMQLockServer.release; a failed release returns (False, None).
release(held, filepath, uuid) ==
    IF filepath \in DOMAIN held
    THEN IF Owns(held[filepath], uuid)
         THEN Lowered(held, filepath)
         ELSE NotReleased(held)
    ELSE NotReleased(held)

\* Expired one tick late.
ExpiredLate(lock) == lock.timeout < 0

\* lock['timeout'] <= 0 after the decrement
Expired(lock) == lock.timeout <= 0

\* sweep that takes expired records out without ageing the others.
sweepExpiredOnly(held) ==
    LET aged == [k \in DOMAIN held |-> [held[k] EXCEPT !.timeout = @ - 1]]
        kept == {k \in DOMAIN held : ~Expired(aged[k])}
    IN  [k \in kept |-> held[k]]

\* One sweep of monitor_timeouts over a copy of the table.
sweep(held) ==
    LET aged == [k \in DOMAIN held |-> [held[k] EXCEPT !.timeout = @ - 1]]
        kept == {k \in DOMAIN held : ~Expired(aged[k])}
    IN  [k \in kept |-> aged[k]]

\* ----------------------------------------------------------------- clients
\* A client sends a request when it has none outstanding; sending clears the
\* response of its previous call. A request the server lost in a restart is
\* no longer outstanding: its client gave up at its response deadline.
ClientSend(c, requests) ==
    /\ ~Outstanding(c)
    /\ \E frames \in requests :
          /\ (frames[1] = "acquire" /\ Held(frames[2]))
                => held_locks[frames[2]].depth < MaxDepth
          /\ router' = Append(router, [addr |-> c, frames |-> frames])
    /\ inbox' = [inbox EXCEPT ![c] = NoFrames]
    /\ UNCHANGED <<held_locks, pc, messages, ret, reply, track>>

\* ------------------------------------------------------------ request loop
\* router.recv_multipart, dealer.send_multipart, sock.recv_multipart
Recv ==
    /\ pc = "recv"
    /\ router # <<>>
    /\ messages' = Head(router)
    /\ router' = Tail(router)
    /\ pc' = "handle"
    /\ UNCHANGED <<held_locks, ret, reply, inbox, track>>

\* The except clause of run(): one more send on the REP socket. If the try
\* block had already sent, the REP socket refuses (it is not in a state to
\* send), the ZMQError leaves run() and the main block takes over.
Except(exc, sent) ==
    IF sent = NoFrames
    THEN /\ reply' = TracebackReply(exc)
         /\ pc' = "forward"
    ELSE /\ reply' = sent
         /\ pc' = "crashed"

HandleHello ==
    /\ messages.frames[1] = "hello"
    /\ reply' = HelloReply
    /\ pc' = "forward"
    /\ UNCHANGED <<held_locks, ret, track>>

HandleAcquire ==
    /\ messages.frames[1] = "acquire"
    /\ LET args == Tail(messages.frames) IN
       IF Len(args) # 3
       THEN /\ Except("TypeError", NoFrames)
            /\ UNCHANGED <<held_locks, ret, track>>
       ELSE LET got == acquire(held_locks, args[1], args[2], args[3]) IN
            /\ held_locks' = got.held
            /\ IF got.exc # "none"
               THEN /\ Except(got.exc, NoFrames)
                    /\ UNCHANGED <<ret, track>>
               ELSE /\ ret' = got.ret
                    /\ IF got.ret.success
                       THEN /\ reply' = AcquiredReply(got.ret.depth)
                            /\ pc' = "forward"
                            /\ track' = [track EXCEPT ![args[1]] =
                                  [on |-> TRUE, n |-> got.held[args[1]].timeout, ticks |-> 0]]
                       ELSE /\ reply' = NoFrames
                            /\ pc' = "poll"
                            /\ UNCHANGED track

\* A failed release sends its error and then formats the warning with
\* args[2], args[1] of a two-element list: IndexError after the send.
HandleRelease ==
    /\ messages.frames[1] = "release"
    /\ LET args == Tail(messages.frames) IN
       IF Len(args) # 2
       THEN /\ Except("TypeError", NoFrames)
            /\ UNCHANGED <<held_locks, ret, track>>
       ELSE LET got == release(held_locks, args[1], args[2]) IN
            /\ held_locks' = got.held
            /\ ret' = got.ret
            /\ IF got.ret.success
               THEN /\ reply' = ReleasedReply(got.ret.depth)
                    /\ pc' = "forward"
                    /\ track' = IF got.ret.depth = 0
                                 THEN [track EXCEPT ![args[1]] = Untracked]
                                 ELSE track
               ELSE /\ IF 3 <= Len(args)
                       THEN /\ reply' = NotHeldReply
                            /\ pc' = "forward"
                       ELSE Except("IndexError", NotHeldReply)
                    /\ UNCHANGED track

\* HandleInvalid without the raise: the request is dropped unanswered.
HandleInvalidDropped ==
    /\ messages.frames[1] \notin {"hello", "acquire", "release"}
    /\ reply' = NoFrames
    /\ pc' = "recv"
    /\ UNCHANGED <<held_locks, ret, track>>

HandleInvalid ==
    /\ messages.frames[1] \notin {"hello", "acquire", "release"}
    /\ Except("ValueError", NoFrames)
    /\ UNCHANGED <<held_locks, ret, track>>

\* The try block of run() for the request in messages.
Handle ==
    /\ pc = "handle"
    /\ \/ HandleHello
       \/ HandleAcquire
       \/ HandleRelease
       \/ HandleInvalid
    /\ UNCHANGED <<router, messages, inbox>>

\* Poll looking at the table again after the wait: the key is granted if
\* its record has gone meanwhile.
PollRechecking ==
    /\ pc = "poll"
    /\ LET got == acquire(held_locks, messages.frames[2], messages.frames[3],
                          messages.frames[4]) IN
       /\ held_locks' = got.held
       /\ ret' = got.ret
       /\ reply' = IF got.ret.success THEN AcquiredReply(got.ret.depth)
                   ELSE RetryReply(got.ret.holder)
    /\ pc' = "forward"
    /\ UNCHANGED <<router, messages, inbox, track>>

\* Poll with no interval: it returns only when a request is queued.
PollBlocking ==
    /\ pc = "poll"
    /\ router # <<>>
    /\ reply' = RetryReply(ret.holder)
    /\ pc' = "forward"
    /\ UNCHANGED <<held_locks, router, messages, ret, inbox, track>>

\* poller.poll(self.retry_interval) returns, on a queued request or on the
\* interval; its result is not used. Then the retry response is sent.
Poll ==
    /\ pc = "poll"
    /\ reply' = RetryReply(ret.holder)
    /\ pc' = "forward"
    /\ UNCHANGED <<held_locks, router, messages, ret, inbox, track>>

\* dealer.recv_multipart, router.send_multipart: the response goes to the
\* client whose envelope came with the request. The locals of the iteration
\* are dead from here on: the next iteration assigns them before any read.
Forward ==
    /\ pc = "forward"
    /\ inbox' = [inbox EXCEPT ![messages.addr] = reply]
    /\ messages' = NoMessage
    /\ ret' = NoReturn
    /\ reply' = NoFrames
    /\ pc' = "recv"
    /\ UNCHANGED <<held_locks, router, track>>

\* --------------------------------------------------------- timeout monitor
MonitorTick ==
    /\ held_locks' = sweep(held_locks)
    /\ track' = [k \in Keys |->
          IF track[k].on /\ track[k].ticks + 1 < track[k].n
          THEN [track[k] EXCEPT !.ticks = @ + 1]
          ELSE Untracked]
    /\ UNCHANGED <<pc, router, messages, ret, reply, inbox>>

\* -------------------------------------------------------------- main block
\* The exception that left run() is logged and a new ZMQLockServer is made:
\* a new, empty held_locks and new sockets, the old ones and what they held
\* being dropped. Binding the port may fail while the old sockets linger;
\* then the loop comes round again.
Restart ==
    /\ pc = "crashed"
    /\ held_locks' = EmptyTable
    /\ router' = <<>>
    /\ messages' = NoMessage
    /\ ret' = NoReturn
    /\ reply' = NoFrames
    /\ pc' \in {"recv", "crashed"}
    /\ track' = [k \in Keys |-> Untracked]
    /\ UNCHANGED inbox

\* What a step of the lock server, taken whole, leaves alone: the mutex is
\* free again when acquire, release or a sweep has returned, the observers
\* of grants are not kept, and the heartbeats are another program.
NoMutex == UNCHANGED access_lock

Uncounted == UNCHANGED observers

NoHeartbeat == UNCHANGED hb_vars

Elsewhere == NoMutex /\ Uncounted /\ NoHeartbeat

ServerStep == (Recv \/ Handle \/ Poll \/ Forward) /\ Elsewhere

Next ==
    \/ (\E c \in Clients : ClientSend(c, Requests(c))) /\ Elsewhere
    \/ Recv /\ Elsewhere
    \/ Handle /\ Elsewhere
    \/ Poll /\ Elsewhere
    \/ Forward /\ Elsewhere
    \/ MonitorTick /\ Elsewhere
    \/ Restart /\ Elsewhere

Spec == Init /\ [][Next]_vars

\* The request loop is one thread that is never parked: a receive returns
\* once a request is queued, the poll returns within retry_interval, and the
\* sends do not block. Clients, the monitor and the restart loop are not
\* assumed to make progress.
ContendingNext ==
    \/ (\E c \in Clients : ClientSend(c, ContendingRequests(c))) /\ Elsewhere
    \/ Recv /\ Elsewhere
    \/ Handle /\ Elsewhere
    \/ Poll /\ Elsewhere
    \/ Forward /\ Elsewhere
    \/ MonitorTick /\ Elsewhere
    \/ Restart /\ Elsewhere

LiveSpec == Init /\ [][ContendingNext]_vars /\ WF_vars(ServerStep)

\* ------------------------------------------------- reading a step of run()
\* The frames of the request being handled.
Req == messages.frames

AcquireBy(k, o) == Len(Req) = 4 /\ Req[1] = "acquire" /\ Req[2] = k /\ Req[3] = o

ReleaseBy(k, o) == Len(Req) = 3 /\ Req[1] = "release" /\ Req[2] = k /\ Req[3] = o

HeldBy(k, o) == Held(k) /\ held_locks[k].uuid = o

Denied(uuid) == [success |-> FALSE, depth |-> 0, holder |-> uuid]

\* The step that runs the try block of run() for the request in messages.
Handled == pc = "handle" /\ pc' # "handle"

\* ---------------------------------------------------------------------- C1
\* C1: whenever acquire(k, o2, t) is called while the table holds a record
\* of k owned by o1 # o2, the call is not granted, the record stays o1's, and
\* for every t that int() accepts it returns (False, o1). (A frame int()
\* rejects raises ValueError before the table is read; nothing is granted.)
C1_DeniedNamesHolder ==
    [][Handled => \A k \in Keys, o1 \in Clients : \A o2 \in Clients \ {o1} :
        (AcquireBy(k, o2) /\ HeldBy(k, o1)) =>
            /\ ~ret'.success
            /\ reply' = NoFrames \/ reply' = TracebackReply("ValueError")
            /\ k \in DOMAIN held_locks' /\ held_locks'[k].uuid = o1
            /\ IntParses(Req[4]) => (ret' = Denied(o1) /\ pc' = "poll")]_vars

\* o2 has been refused k, which o1 holds, and the refusal names o1.
C1_Witness ==
    \E k \in Keys, o1 \in Clients : \E o2 \in Clients \ {o1} :
        /\ pc = "poll"
        /\ AcquireBy(k, o2)
        /\ HeldBy(k, o1)
        /\ ret = Denied(o1)

\* ---------------------------------------------------------------------- C2
\* C2: an acquire of k by o, with k absent or already o's at depth d (d = 0
\* if absent), is granted and reports depth d + 1, and k is in the table at
\* that depth afterwards; a release of k by its holder o at depth d succeeds
\* and reports d - 1, and k stays in the table exactly when d - 1 > 0. Hence
\* n acquires from absent report 1..n and n releases report n-1..0, k being
\* absent only after the last.
C2_DepthRoundTrip ==
    [][Handled => \A k \in Keys, o \in Clients :
        /\ (AcquireBy(k, o) /\ IntParses(Req[4]) /\ (~Held(k) \/ HeldBy(k, o))) =>
              LET d == IF Held(k) THEN held_locks[k].depth ELSE 0 IN
              /\ ret' = Granted(d + 1)
              /\ reply' = AcquiredReply(d + 1)
              /\ k \in DOMAIN held_locks'
              /\ held_locks'[k].depth = d + 1
              /\ held_locks'[k].uuid = o
        /\ (ReleaseBy(k, o) /\ HeldBy(k, o)) =>
              LET d == held_locks[k].depth IN
              /\ ret' = Granted(d - 1)
              /\ reply' = ReleasedReply(d - 1)
              /\ (d - 1 > 0) <=> (k \in DOMAIN held_locks')
              /\ (d - 1 > 0) => (held_locks'[k].depth = d - 1 /\ held_locks'[k].uuid = o)]_vars

\* The holder, having nested MaxDepth acquisitions, has released one of them.
C2_Witness ==
    \E k \in Keys, o \in Clients :
        /\ pc = "forward"
        /\ ReleaseBy(k, o)
        /\ reply = ReleasedReply(MaxDepth - 1)
        /\ HeldBy(k, o)
        /\ held_locks[k].depth = MaxDepth - 1

\* ---------------------------------------------------------------------- C3
\* C3: a re-acquisition of k by its holder with timeout t leaves the record
\* with lease_remaining = max(lease_remaining before, t), never less than
\* before.
C3_LeaseNeverShortened ==
    [][Handled => \A k \in Keys, o \in Clients :
        (AcquireBy(k, o) /\ IntParses(Req[4]) /\ HeldBy(k, o)) =>
            /\ held_locks'[k].timeout = Max(held_locks[k].timeout, IntOf(Req[4]))
            /\ held_locks'[k].timeout >= held_locks[k].timeout]_vars

\* A re-acquisition asking for less than the record's lease has been granted
\* and the lease is still the longer one.
C3_Witness ==
    \E k \in Keys, o \in Clients :
        /\ pc = "forward"
        /\ AcquireBy(k, o)
        /\ IntParses(Req[4])
        /\ reply = AcquiredReply(2)
        /\ HeldBy(k, o)
        /\ held_locks[k].timeout > IntOf(Req[4])

\* ---------------------------------------------------------------------- C4
\* C4: release(k, o) with k absent from the table, or held by another owner,
\* returns (False, None) and leaves the whole table as it was.
C4_FailedReleaseNoChange ==
    [][Handled => \A k \in Keys, o \in Clients :
        (ReleaseBy(k, o) /\ ~HeldBy(k, o)) =>
            /\ ret' = Denied("None")
            /\ held_locks' = held_locks]_vars

\* A release of a key another owner holds has returned (False, None).
C4_Witness ==
    \E k \in Keys, o1 \in Clients : \E o2 \in Clients \ {o1} :
        /\ pc # "handle"
        /\ ReleaseBy(k, o2)
        /\ HeldBy(k, o1)
        /\ ret = Denied("None")

\* ---------------------------------------------------------------------- C5
\* The exception the try block of run() raises for the request in messages,
\* "none" if it raises none.
Raises ==
    IF Req[1] = "hello" THEN "none"
    ELSE IF Req[1] = "acquire"
         THEN IF Len(Req) # 4 THEN "TypeError"
              ELSE IF ~IntParses(Req[4]) THEN "ValueError" ELSE "none"
    ELSE IF Req[1] = "release"
         THEN IF Len(Req) # 3 THEN "TypeError"
              ELSE IF HeldBy(Req[2], Req[3]) THEN "none" ELSE "IndexError"
    ELSE "ValueError"

\* C5: a release request for a key that is absent or held by another owner
\* is answered with the frames error, "lock holding timed out or was never
\* acquired", and the request loop goes on to forward that response and to
\* receive the next request, with the table it had.
C5_FailedReleaseAnswered ==
    [][Handled => \A k \in Keys, o \in Clients :
        (ReleaseBy(k, o) /\ ~HeldBy(k, o)) =>
            /\ reply' = NotHeldReply
            /\ pc' = "forward"
            /\ held_locks' = held_locks]_vars

\* ---------------------------------------------------------------------- C6
\* C6: whatever exception the handling of a request raises, and wherever,
\* the request loop sends an error response for that request and goes on to
\* forward it, and the records of the other keys are as they were.
C6_ExceptionCaughtPerRequest ==
    [][(Handled /\ Raises # "none") =>
        /\ pc' = "forward"
        /\ reply'[1] = "error"
        /\ \A k \in Keys : (Len(Req) > 1 /\ k # Req[2] /\ Held(k)) =>
              (k \in DOMAIN held_locks' /\ held_locks'[k] = held_locks[k])]_vars

C8_DenialChangesNothing ==
    [][pc' # pc => \A k \in Keys, o1 \in Clients : \A o2 \in Clients \ {o1} :
        (AcquireBy(k, o2) /\ IntParses(Req[4]) /\ HeldBy(k, o1)) =>
            /\ held_locks' = held_locks
            /\ pc = "handle" => (ret' = Denied(o1) /\ pc' = "poll")
            /\ pc = "poll" => (reply' = RetryReply(o1) /\ pc' = "forward")
            /\ pc = "forward" => (reply = RetryReply(o1) /\ inbox'[o2] = RetryReply(o1))]_vars

\* o2 has its retry naming o1 while o1 still holds k and the other key is
\* held as well.
C8_Witness ==
    \E k \in Keys, o1 \in Clients : \E o2 \in Clients \ {o1} :
        /\ inbox[o2] = RetryReply(o1)
        /\ HeldBy(k, o1)
        /\ held_locks[k].depth > 1
        /\ \A j \in Keys : Held(j)

\* ---------------------------------------------------------------------- C9
\* C9: a refused acquire is answered retry, naming the holder, after a wait
\* that always ends; the wait does not consume the queued requests, so one
\* queued during it (the holder's release) is the next to be handled, and
\* its handling completes; a release by the holder at depth 1 removes the
\* record, and an acquire of the key, absent from then on, by the other
\* client is answered ok with depth 1.
C9_ContentionResolved ==
    /\ (pc = "poll") ~> (pc = "forward" /\ reply = RetryReply(ret.holder))
    /\ (pc = "poll" /\ router # <<>>) ~> (pc = "handle")
    /\ (pc = "handle") ~> (pc # "handle")
    /\ [][/\ (pc \in {"poll", "forward"} /\ router # <<>>) =>
                (router' # <<>> /\ Head(router') = Head(router))
          /\ (pc = "poll" /\ pc' # pc) => (pc' = "forward" /\ reply' = RetryReply(ret.holder))
          /\ (pc = "forward" /\ pc' # pc) => (pc' = "recv" /\ inbox'[messages.addr] = reply)
          /\ (pc = "recv" /\ pc' # pc) => (pc' = "handle" /\ messages' = Head(router))
          /\ Handled => \A k \in Keys, o \in Clients :
                /\ (ReleaseBy(k, o) /\ HeldBy(k, o) /\ held_locks[k].depth = 1) =>
                      (reply' = ReleasedReply(0) /\ k \notin DOMAIN held_locks')
                /\ (AcquireBy(k, o) /\ IntParses(Req[4]) /\ ~Held(k)) =>
                      (pc' = "forward" /\ reply' = AcquiredReply(1))]_vars

\* B's acquire of a key A holds is in its contention wait while A's release
\* of that key is queued at the router.
C9_Witness ==
    \E k \in Keys, o1 \in Clients : \E o2 \in Clients \ {o1} :
        /\ pc = "poll"
        /\ AcquireBy(k, o2)
        /\ HeldBy(k, o1)
        /\ held_locks[k].depth = 1
        /\ router = <<[addr |-> o1, frames |-> <<"release", k, o1>>]>>

\* --------------------------------------------------------------------- C10
\* C10: in every reachable state every record in the table has an owner and
\* depth >= 1 (a key that nobody holds has no record).
C10_PresentIffHeld ==
    /\ DOMAIN held_locks \subseteq Keys
    /\ \A k \in DOMAIN held_locks :
          /\ held_locks[k].depth >= 1
          /\ held_locks[k].uuid \in Clients

\* The last level of a key has just been released and its record is gone,
\* while the other key is still held.
C10_Witness ==
    \E k \in Keys, o \in Clients :
        /\ pc = "forward"
        /\ ReleaseBy(k, o)
        /\ reply = ReleasedReply(0)
        /\ ~Held(k)
        /\ held_locks # EmptyTable

\* --------------------------------------------------------------------- C11
\* C11: a request whose first frame is not hello, acquire or release is
\* answered with an error response, which is forwarded to the client that
\* sent it; the table is unchanged and the loop goes back to receiving.
C11_UnknownVerbAnswered ==
    [][(pc \in {"handle", "forward"} /\ pc' # pc
            /\ Req[1] \notin {"hello", "acquire", "release"}) =>
        /\ held_locks' = held_locks
        /\ pc = "handle" => (pc' = "forward" /\ reply' = TracebackReply("ValueError"))
        /\ pc = "forward" =>
              /\ reply = TracebackReply("ValueError")
              /\ inbox'[messages.addr] = reply
              /\ pc' = "recv"]_vars

\* A client has its error for a request with an unknown verb, the server is
\* receiving again and a lock is still held.
C11_Witness ==
    \E c \in Clients :
        /\ inbox[c] = TracebackReply("ValueError")
        /\ pc = "recv"
        /\ held_locks # EmptyTable
        /\ \A k \in Keys : ~HeldBy(k, c)

\* --------------------------------------------------------------------- C12
\* C12: on every path of the handler one reply, and only one, is sent on the
\* REP socket for the request received (at once, or after the contention
\* wait), that reply is forwarded to the client of the request, and only
\* then is the next request pulled from the router.
C12_StrictAlternation ==
    [][/\ Handled => (pc' = "poll" /\ reply' = NoFrames)
                        \/ (pc' = "forward" /\ reply' # NoFrames)
       /\ (pc = "poll" /\ pc' # pc) => (pc' = "forward" /\ reply' # NoFrames)
       /\ (pc = "forward" /\ pc' # pc) =>
             (pc' = "recv" /\ inbox'[messages.addr] = reply)
       /\ (pc' = "handle" /\ pc # "handle") => (pc = "recv" /\ reply = NoFrames)]_vars

\* --------------------------------------------------------------------- C13
\* C13: a release of k by A, whose record of k has gone, fails; if B holds
\* k by then, the handling of A's release, and whatever the server does for
\* it afterwards, leaves B's record as it was: only a monitor tick, or a
\* request of B itself, changes or removes it.
C13_StaleReleaseHarmless ==
    [][\A k \in Keys, a \in Clients : \A b \in Clients \ {a} :
        (ReleaseBy(k, a) /\ HeldBy(k, b) /\ ~MonitorTick) =>
            /\ Handled => ret' = Denied("None")
            /\ k \in DOMAIN held_locks'
            /\ held_locks'[k] = held_locks[k]]_vars

\* --------------------------------------------------------------------- C14
\* C14: a refused acquire goes to the contention wait with the holder's uuid
\* it was refused with; when the wait ends, whatever is queued at the router
\* and whatever has become of the holder's record, the response is retry
\* naming that uuid; from the refusal to the forwarding of the response the
\* request loop does not write the table.
C14_RetryAfterWait ==
    [][/\ (Handled /\ pc' = "poll") =>
             /\ ret'.holder = held_locks[Req[2]].uuid
             /\ ret'.holder # Req[3]
             /\ held_locks' = held_locks
       /\ (pc = "poll" /\ pc' # pc) =>
             /\ pc' = "forward"
             /\ reply' = RetryReply(ret.holder)
             /\ held_locks' = held_locks
       /\ (pc = "forward" /\ pc' # pc /\ reply[1] = "retry") =>
             /\ inbox'[messages.addr] = RetryReply(ret.holder)
             /\ held_locks' = held_locks]_vars

\* The retry naming o1 is about to be forwarded although the monitor has
\* removed o1's record during the wait, with no request queued.
C14_Witness ==
    \E k \in Keys, o1 \in Clients : \E o2 \in Clients \ {o1} :
        /\ pc = "forward"
        /\ AcquireBy(k, o2)
        /\ reply = RetryReply(o1)
        /\ ~Held(k)
        /\ router = <<>>

\* --------------------------------------------------------------------- C17
\* C17: in every step, for every key: a record that stays keeps its owner,
\* and its depth stays, or goes up by 1 in an acquire of the key by that
\* owner, or down by 1 in a release of the key by that owner; a record
\* appears only at depth 1, for the owner whose acquire is handled; a record
\* goes in the handling of a request only at depth 1, in its owner's release.
C17_DepthByOwnerOnly ==
    [][\A k \in Keys :
        /\ (Held(k) /\ k \in DOMAIN held_locks') =>
              LET o == held_locks[k].uuid
                  d == held_locks[k].depth
                  e == held_locks'[k].depth IN
              /\ held_locks'[k].uuid = o
              /\ e \in {d - 1, d, d + 1}
              /\ e = d + 1 => (Handled /\ AcquireBy(k, o))
              /\ e = d - 1 => (Handled /\ ReleaseBy(k, o))
        /\ (~Held(k) /\ k \in DOMAIN held_locks') =>
              /\ held_locks'[k].depth = 1
              /\ Handled /\ AcquireBy(k, held_locks'[k].uuid)
        /\ (Held(k) /\ k \notin DOMAIN held_locks' /\ Handled) =>
              (held_locks[k].depth = 1 /\ ReleaseBy(k, held_locks[k].uuid))]_vars

\* A nested record has been lowered by its owner's release while the other
\* key is held by the other client.
C17_Witness ==
    \E k \in Keys, o1 \in Clients : \E o2 \in Clients \ {o1} :
        /\ pc = "forward"
        /\ ReleaseBy(k, o1)
        /\ reply = ReleasedReply(1)
        /\ HeldBy(k, o1)
        /\ \E j \in Keys \ {k} : HeldBy(j, o2)

\* ============================================================ access_lock
\* The same server with the `with self.access_lock:` blocks of acquire,
\* release and monitor_timeouts taken in two steps each: the lock is taken,
\* then the block runs and the lock is given back as the block is left.

\* threading.Lock.acquire returns only when no thread has the lock.
Free(lock) == lock = {}

\* Leaving without giving the lock back.
UnlockedNever(lock, thread) == lock

\* leaving the with block, by return or by falling off its end
Unlocked(lock, thread) == lock \ {thread}

\* The requests whose handling reaches a with block: acquire with three
\* arguments and a timeout int() accepts (line 52 is before the block),
\* release with two arguments.
NeedsLock ==
    \/ Len(Req) = 4 /\ Req[1] = "acquire" /\ IntParses(Req[4])
    \/ Len(Req) = 3 /\ Req[1] = "release"

\* The try block for a request that is answered without the table.
HandleUnlocked ==
    /\ ~NeedsLock
    /\ Handle
    /\ Elsewhere

\* `with self.access_lock:` in acquire or release, called from run().
Enter ==
    /\ pc = "handle"
    /\ NeedsLock
    /\ Free(access_lock)
    /\ access_lock' = access_lock \cup {"main"}
    /\ pc' = "locked"
    /\ UNCHANGED <<held_locks, router, messages, ret, reply, inbox, track>>
    /\ Uncounted /\ NoHeartbeat

\* The block of acquire or release, its return, and what run() does with
\* the pair returned, up to its send or its poll.
Leave ==
    /\ pc = "locked"
    /\ HandleAcquire \/ HandleRelease
    /\ access_lock' = Unlocked(access_lock, "main")
    /\ UNCHANGED <<router, messages, inbox>>
    /\ Uncounted /\ NoHeartbeat

\* `with self.access_lock:` in monitor_timeouts, after the sleep.
MonitorEnter ==
    /\ Free(access_lock)
    /\ access_lock' = access_lock \cup {"monitor"}
    /\ UNCHANGED <<held_locks, pc, router, messages, ret, reply, inbox, track>>
    /\ Uncounted /\ NoHeartbeat

\* The sweep, and the end of the block.
MonitorSweep ==
    /\ "monitor" \in access_lock
    /\ MonitorTick
    /\ access_lock' = Unlocked(access_lock, "monitor")
    /\ Uncounted /\ NoHeartbeat

\* The new ZMQLockServer has a lock of its own, which nobody holds; the
\* monitor thread of the old one is left with the old table.
RestartFresh ==
    /\ Restart
    /\ access_lock' = {}
    /\ Uncounted /\ NoHeartbeat

MutexNext ==
    \/ (\E c \in Clients : ClientSend(c, ContendingRequests(c))) /\ Elsewhere
    \/ Recv /\ Elsewhere
    \/ HandleUnlocked
    \/ Enter
    \/ Leave
    \/ Poll /\ Elsewhere
    \/ Forward /\ Elsewhere
    \/ MonitorEnter
    \/ MonitorSweep
    \/ RestartFresh

MutexSpec == Init /\ [][MutexNext]_vars

\* --------------------------------------------------------------------- C15
\* C15: the request loop has the table mutex only inside acquire or
\* release: while it receives, waits in the contention poll, or has a
\* response to send or forward, it does not have it; so in each of these
\* states the monitor can take the mutex or finish the sweep it is in; and
\* at most one of the two threads has the mutex.
C15_NoMutexAcrossIO ==
    /\ "main" \in access_lock <=> pc = "locked"
    /\ pc \in {"recv", "poll", "forward"} => ENABLED (MonitorEnter \/ MonitorSweep)
    /\ Cardinality(access_lock) <= 1

\* The monitor is in its sweep while a refused acquire waits in the poll.
C15_Witness ==
    /\ pc = "poll"
    /\ access_lock = {"monitor"}
    /\ held_locks # EmptyTable

\* --------------------------------------------------------------------- C16
\* C16: the monitor has the mutex from before its sweep to its end, and no
\* other step writes the table meanwhile; the sweep removes every record
\* whose lease_remaining was <= 1, whatever its depth, keeps every other
\* record with lease_remaining one less and owner and depth as they were,
\* and adds none. (The step in which the monitor gives the mutex back is
\* told from a restart, which leaves the old table and its mutex behind, by
\* the request loop staying where it is.)
C16_TickSweepsAll ==
    [][/\ ("monitor" \in access_lock /\ "monitor" \in access_lock') =>
             held_locks' = held_locks
       /\ ("monitor" \in access_lock /\ "monitor" \notin access_lock'
             /\ UNCHANGED <<pc, router, messages>>) =>
             /\ access_lock = {"monitor"}
             /\ DOMAIN held_locks' \subseteq DOMAIN held_locks
             /\ \A k \in DOMAIN held_locks :
                   IF held_locks[k].timeout - 1 <= 0
                   THEN k \notin DOMAIN held_locks'
                   ELSE /\ k \in DOMAIN held_locks'
                        /\ held_locks'[k] =
                             [held_locks[k] EXCEPT !.timeout = @ - 1]]_vars

\* A sweep is about to remove a nested record at the end of its lease and to
\* keep, one second older, the record of the other key.
C16_Witness ==
    \E k \in Keys : \E j \in Keys \ {k} :
        /\ access_lock = {"monitor"}
        /\ Held(k) /\ held_locks[k].timeout = 1 /\ held_locks[k].depth = 2
        /\ Held(j) /\ held_locks[j].timeout = 2

\* ======================================================= grants, as counted
\* The same server with the observers kept: owed[k][o] is the number of
\* acquires of k by o the server has granted, less the releases of k by o
\* it has answered ok; live[k] is that count taken anew from each grant
\* answered with depth 1. Neither is told of an eviction or of a restart,
\* as no client is.

\* What a client sends here: releases, and acquires with a lease of one
\* second, of no key it is owed MaxOwed times.
Affordable(c) ==
    {<<"acquire", k, c, ToStr(1)>> : k \in {j \in Keys : owed[j][c] < MaxOwed}}
    \cup {<<"release", k, c>> : k \in Keys}

Count ==
    IF pc' = "forward" /\ ret'.success /\ Req[1] = "acquire"
    THEN /\ owed' = [owed EXCEPT ![Req[2]][Req[3]] = @ + 1]
         /\ live' = [live EXCEPT ![Req[2]] = IF ret'.depth = 1 THEN 1 ELSE @ + 1]
    ELSE IF pc' = "forward" /\ ret'.success /\ Req[1] = "release"
    THEN /\ owed' = [owed EXCEPT ![Req[2]][Req[3]] = @ - 1]
         /\ live' = [live EXCEPT ![Req[2]] = @ - 1]
    ELSE UNCHANGED observers

HandleCounted ==
    /\ Handle
    /\ Count
    /\ NoMutex /\ NoHeartbeat

CountNext ==
    \/ (\E c \in Clients : ClientSend(c, Affordable(c))) /\ Elsewhere
    \/ Recv /\ Elsewhere
    \/ HandleCounted
    \/ Poll /\ Elsewhere
    \/ Forward /\ Elsewhere
    \/ MonitorTick /\ Elsewhere
    \/ Restart /\ Elsewhere

CountSpec == Init /\ [][CountNext]_vars

\* The owners that have been granted k and have not released it since.
Believing(k) == {o \in Clients : owed[k][o] > 0}

\* --------------------------------------------------------------------- C18
\* C18 (as claimed): for every key, at most one owner is between a granted
\* acquire of the key and its matching successful release.
C18_OneOwnerBetweenGrantAndRelease ==
    \A k \in Keys : Cardinality(Believing(k)) <= 1

\* C18: for every key, the owner of the record in the table is one of those
\* granted the key and not yet through with their releases; an acquire of k
\* by o2 is granted only if the table has no record of k of another owner,
\* and leaves the record o2's. (An owner whose record the monitor removed
\* is not in the table, and does not keep o2 out.)
C18_OneOwnerInTable ==
    /\ [](\A k \in Keys : Held(k) => held_locks[k].uuid \in Believing(k))
    /\ [][Handled => \A k \in Keys, o2 \in Clients :
            (AcquireBy(k, o2) /\ ret'.success) =>
                /\ \A o1 \in Clients \ {o2} : ~HeldBy(k, o1)
                /\ k \in DOMAIN held_locks' /\ held_locks'[k].uuid = o2]_vars

\* o2 has just been granted k, at depth 1, while o1, whose record of k the
\* monitor has removed, has not released it.
C18_Witness ==
    \E k \in Keys, o1 \in Clients : \E o2 \in Clients \ {o1} :
        /\ pc = "forward"
        /\ AcquireBy(k, o2)
        /\ reply = AcquiredReply(1)
        /\ HeldBy(k, o2)
        /\ owed[k][o1] > 0

\* --------------------------------------------------------------------- C19
\* C19 (as claimed): the depth of the record of k, owned by o, is the number
\* of o's granted acquires of k not yet matched by a successful release.
C19_DepthIsUnmatchedGrants ==
    \A k \in Keys, o \in Clients : HeldBy(k, o) => held_locks[k].depth = owed[k][o]

\* C19: the depth of the record of k, owned by o, is the number of o's
\* granted acquires of k since the one that made this record (the one
\* answered with depth 1), less o's releases of k answered ok since; it is
\* never more than the number of all o's unmatched grants of k; and a
\* release by o is answered ok only when that count on the record in the
\* table is at least 1.
C19_DepthIsGrantsOnRecord ==
    /\ [](\A k \in Keys, o \in Clients : HeldBy(k, o) =>
            /\ held_locks[k].depth = live[k]
            /\ live[k] <= owed[k][o])
    /\ [][Handled => \A k \in Keys, o \in Clients :
            (ReleaseBy(k, o) /\ ret'.success) =>
                /\ HeldBy(k, o)
                /\ live[k] >= 1
                /\ live'[k] = live[k] - 1]_vars

\* o holds k again at depth 1 after the monitor removed its first record:
\* two grants stand unreleased, one of them on the record in the table.
C19_Witness ==
    \E k \in Keys, o \in Clients :
        /\ HeldBy(k, o)
        /\ held_locks[k].depth = 1
        /\ live[k] = 1
        /\ owed[k][o] = 2

\* ============================================================== heartbeats
\* src/__init__.py: each child process has a HeartbeatClient, whose thread
\* round-trips the child's pid to the HeartbeatServer of the parent process.
\* Time is kept as order only: an echo is in time when it is at the child's
\* socket before poller.poll(1000) gives up.

lock_server_vars ==
    <<held_locks, pc, router, messages, ret, reply, inbox, track, access_lock,
      owed, live>>

\* os.getpid() in each child
getpid(c) == CASE c = "c1" -> 11 [] c = "c2" -> 12 [] c = "c3" -> 103

\* self.pid = str(os.getpid())
Pid(c) == ToStr(getpid(c))

Beat(c) == [from |-> c, token |-> Pid(c)]

\* time.sleep(1); self.sock.send(self.pid, zmq.NOBLOCK). The heartbeat is
\* queued at the server, or is lost with a parent that has gone. The send
\* statement raises when there is no peer to send to (the parent has gone,
\* or in the first round the connection is not up yet) or when, in the
\* first round, self.pid is not assigned yet (the thread is started one
\* line before it is); the except clause breaks to os.kill.
Send(c) ==
    /\ child[c] \in {"started", "sleep"}
    /\ \/ /\ child' = [child EXCEPT ![c] = "poll"]
          /\ hb_queue' = IF parent = "running" THEN Append(hb_queue, Beat(c))
                         ELSE hb_queue
       \/ /\ child[c] = "started" \/ parent = "gone"
          /\ child' = [child EXCEPT ![c] = "dead"]
          /\ UNCHANGED hb_queue
    /\ UNCHANGED <<hb_msg, hb_echo, parent>>
    /\ UNCHANGED lock_server_vars

\* events is not empty: msg = self.sock.recv(); assert msg == self.pid
Echoed(c) ==
    /\ child[c] = "poll"
    /\ hb_echo[c] # NoEcho
    /\ child' = [child EXCEPT ![c] = IF hb_echo[c] = Pid(c) THEN "sleep" ELSE "dead"]
    /\ hb_echo' = [hb_echo EXCEPT ![c] = NoEcho]
    /\ UNCHANGED <<hb_queue, hb_msg, parent>>
    /\ UNCHANGED lock_server_vars

\* TimedOut with `continue` for `break`.
TimedOutContinues(c) ==
    /\ child[c] = "poll"
    /\ hb_echo[c] = NoEcho
    /\ child' = [child EXCEPT ![c] = "sleep"]
    /\ UNCHANGED <<hb_queue, hb_msg, hb_echo, parent>>
    /\ UNCHANGED lock_server_vars

\* events is empty after 1000 ms: break, os.kill(os.getpid(), SIGKILL)
TimedOut(c) ==
    /\ child[c] = "poll"
    /\ hb_echo[c] = NoEcho
    /\ child' = [child EXCEPT ![c] = "dead"]
    /\ UNCHANGED <<hb_queue, hb_msg, hb_echo, parent>>
    /\ UNCHANGED lock_server_vars

ChildStep(c) == Send(c) \/ Echoed(c) \/ TimedOut(c)

\* HeartbeatServer.mainloop: msg = self.sock.recv()
HeartbeatRecv ==
    /\ parent = "running"
    /\ hb_msg = NoBeat
    /\ hb_queue # <<>>
    /\ hb_msg' = Head(hb_queue)
    /\ hb_queue' = Tail(hb_queue)
    /\ UNCHANGED <<child, hb_echo, parent>>
    /\ UNCHANGED lock_server_vars

\* HeartbeatServer.mainloop: self.sock.send(msg); the REP socket sends to
\* the peer the message came from, and drops it if that peer has gone.
HeartbeatEcho ==
    /\ parent = "running"
    /\ hb_msg # NoBeat
    /\ hb_echo' = IF child[hb_msg.from] = "dead" THEN hb_echo
                  ELSE [hb_echo EXCEPT ![hb_msg.from] = hb_msg.token]
    /\ hb_msg' = NoBeat
    /\ UNCHANGED <<child, hb_queue, parent>>
    /\ UNCHANGED lock_server_vars

\* The parent process ends, and its daemon thread with it.
ParentExit ==
    /\ parent = "running"
    /\ parent' = "gone"
    /\ UNCHANGED <<child, hb_queue, hb_msg, hb_echo>>
    /\ UNCHANGED lock_server_vars

HeartbeatNext ==
    \/ \E c \in Children : Send(c)
    \/ \E c \in Children : Echoed(c)
    \/ \E c \in Children : TimedOut(c)
    \/ HeartbeatRecv
    \/ HeartbeatEcho
    \/ ParentExit

\* The thread of a HeartbeatClient is never parked: the sleep ends, the send
\* does not block, and the poll returns within its 1000 ms.
HeartbeatSpec ==
    Init /\ [][HeartbeatNext]_vars /\ \A c \in Children : WF_vars(ChildStep(c))

\* --------------------------------------------------------------------- C20
\* C20: a child that waits for the echo of a heartbeat goes on to its next
\* round if the echo of its own token is there when the poll returns, and
\* is killed if the poll returns without an echo (or with another token);
\* the wait always ends; a child is killed in no other way than that, or by
\* its send statement raising; the echo a child gets is its own token; and
\* once the parent has gone every child is killed in the end.
C20_HeartbeatOrDie ==
    /\ [](\A c \in Children : hb_echo[c] \in {NoEcho, Pid(c)})
    /\ [][\A c \in Children :
            /\ (child[c] = "poll" /\ child'[c] # "poll") =>
                  IF hb_echo[c] = Pid(c)
                  THEN child'[c] = "sleep" /\ hb_echo'[c] = NoEcho
                  ELSE child'[c] = "dead"
            /\ (child[c] # "dead" /\ child'[c] = "dead") =>
                  \/ child[c] = "poll" /\ hb_echo[c] # Pid(c)
                  \/ child[c] \in {"started", "sleep"} /\ hb_queue' = hb_queue
            /\ child[c] = "dead" => child'[c] = "dead"]_vars
    /\ \A c \in Children : (child[c] = "poll") ~> (child[c] # "poll")
    /\ (parent = "gone") ~> (\A c \in Children : child[c] = "dead")

\* With the parent running, one child has its echo in time and is about to
\* go on, after the other was killed for an echo that did not come in time.
C20_Witness ==
    \E c \in Children : \E d \in Children \ {c} :
        /\ parent = "running"
        /\ child[c] = "poll" /\ hb_echo[c] = Pid(c)
        /\ child[d] = "dead"
        /\ hb_msg = Beat(d)

====
